---- MODULE Spec2Model ----
(***************************************************************************)
(* A model of logrole's expiring cache (package cache), of the alert list  *)
(* handler (alertListServer.ServeHTTP) and of the permission-filtering     *)
(* views.Client.                                                           *)
(*                                                                         *)
(* Spec      the cache driven by one caller: Set and Get calls in sequence *)
(*           while the wall clock advances.                                *)
(* SpecRW    the cache called by concurrent goroutines, statement by       *)
(*           statement, with the sync.RWMutex Cache.mu.                    *)
(* SpecAlert requests to alertListServer.ServeHTTP, one after the other,   *)
(*           each with the prefetch goroutine it starts.                   *)
(* SpecAlertLive  one such request, with the fairness of the handler's     *)
(*           steps and of the deadline of its context.                     *)
(* SpecFreq  the response to a first page, for every list of alerts.       *)
(* SpecClient  the fetch operations of views.Client.                       *)
(***************************************************************************)
EXTENDS Integers, Sequences, FiniteSets, TLC

(***************************************************************************)
(* Bounds of the model.                                                    *)
(***************************************************************************)
MaxSize == 2
MaxClock == 2
MaxTTL == 1
MaxField == 1
NumProcs == 2
MaxCalls == 3
MaxCursor == 2
MaxNonce == 2
MaxURLs == 2
MaxAlerts == 3
MaxPageAlerts == 1
MaxRequests == 3

\* the keys a caller uses: one more than the capacity of the cache it was given,
\* enough to overflow it
Keys == 1..(MaxSize + 1)
KeysFor(n) == 1..(n + 1)
\* the sizes NewCache is called with; lru.New(0) builds a cache with no limit
Sizes == 0..MaxSize
\* time.Duration values passed to Set: negative, zero and positive
TTLs == (0 - 1)..MaxTTL
\* Go values with one exported field f.  Callers store values of the struct
\* type "A" and decode into a destination of type "A" or of the unrelated type "B".
Shapes == {"A", "B"}
Values == [shape : {"A"}, f : 0..MaxField]
ZeroValue(shape) == [shape |-> shape, f |-> 0]
Destinations == Values \cup {ZeroValue("B")}

\* the absent expiringBits / time.Time{}
NoTime == 0 - 9
NoEntry == [Set |-> NoTime, Expires |-> NoTime, Bits |-> [shape |-> "", fields |-> {}]]

VARIABLES
    size,     \* the size NewCache was called with
    c,        \* Cache.c: the lru.Cache, [MaxEntries, ll]; ll holds the entries, front first
    now,      \* the wall clock read by time.Now / time.Since
    last,     \* the call in progress or last completed: its arguments and what it returned
    recency,  \* history: keys of the stored entries, most recently accessed first
    expiredKeys, \* history: keys whose last Get returned expired, with no Set since
    mu,       \* Cache.mu: [w |-> the goroutine holding Lock or 0, r |-> those holding RLock]
    pc,       \* per goroutine: the statement of Get or Set it is about to run
    arg,      \* per goroutine: the arguments and locals of its call
    calls,    \* the number of calls made so far
    hpc,      \* ServeHTTP: the part of the handler about to run
    req,      \* the request: its user, its query, what its collaborators answer
    loc,      \* ServeHTTP's locals: next, nextErr, page, err
    resp,     \* what has been written to the http.ResponseWriter
    task,     \* the goroutine of lines 249-255: its argument n and how far it is
    cnt,      \* history: tokens opened, calls on s.Client by the handler and by the goroutine
    past,     \* history across requests: their number, one token a page carried, its uses
    cl        \* views.Client: the call in progress or last completed, and its calls upstream

hist == <<last, recency, expiredKeys>>
rwVars == <<mu, pc, arg, calls>>
alertVars == <<hpc, req, loc, resp, task, cnt, past>>
cacheVars == <<size, c, now, hist, rwVars>>
notCache == <<alertVars, cl>>
vars == <<size, c, now, last, recency, expiredKeys, mu, pc, arg, calls,
          hpc, req, loc, resp, task, cnt, past, cl>>

Procs == 1..NumProcs

(***************************************************************************)
(* encoding/gob + compress/gzip, as enc and Cache.Get use them.  gzip is   *)
(* lossless.  gob transmits a struct as the (name, value) pairs of its     *)
(* fields and omits a field holding the zero value of its type; the        *)
(* decoder assigns the transmitted fields and leaves every other field of  *)
(* the destination as it was.  Decoding into a destination of another      *)
(* shape is an error and leaves the destination alone.                     *)
(***************************************************************************)
enc(data) ==
    [shape |-> data.shape,
     fields |-> IF data.f = 0 THEN {} ELSE {<<"f", data.f>>}]

gobDecode(bits, val) ==
    IF bits.shape # val.shape
    THEN [err |-> "decode", val |-> val]
    ELSE [err |-> "ok",
          val |-> [val EXCEPT !.f = IF \E p \in bits.fields : p[1] = "f"
                                   THEN (CHOOSE p \in bits.fields : p[1] = "f")[2]
                                   ELSE @]]

(***************************************************************************)
(* github.com/golang/groupcache/lru, the store behind Cache.c.  The list   *)
(* ll holds one entry{key, value} per stored key, most recently used       *)
(* first; the map from key to list element is the lookup HasKey / At.      *)
(***************************************************************************)
HasKey(ll, key) == \E i \in 1..Len(ll) : ll[i].key = key
At(ll, key) == ll[CHOOSE i \in 1..Len(ll) : ll[i].key = key]
Without(ll, key) == SelectSeq(ll, LAMBDA e : e.key # key)
KeysOf(ll) == {ll[i].key : i \in 1..Len(ll)}

\* lru.New: MaxEntries zero means no limit
lruNew(maxEntries) == [MaxEntries |-> maxEntries, ll |-> <<>>]

\* lru.Cache.Add: an existing key is moved to the front and its value replaced;
\* a new key is pushed to the front and, when the list then exceeds a non-zero
\* MaxEntries, the element at the back is removed
lruAdd(lc, key, value) ==
    IF HasKey(lc.ll, key)
    THEN [lc EXCEPT !.ll = <<[key |-> key, value |-> value]>> \o Without(lc.ll, key)]
    ELSE LET pushed == <<[key |-> key, value |-> value]>> \o lc.ll
         IN  IF lc.MaxEntries # 0 /\ Len(pushed) > lc.MaxEntries
             THEN [lc EXCEPT !.ll = SubSeq(pushed, 1, Len(pushed) - 1)]
             ELSE [lc EXCEPT !.ll = pushed]

\* lru.Cache.Get: a hit moves the element to the front
lruGet(lc, key) ==
    IF HasKey(lc.ll, key)
    THEN [lc |-> [lc EXCEPT !.ll = <<At(lc.ll, key)>> \o Without(lc.ll, key)],
          value |-> At(lc.ll, key).value, ok |-> TRUE]
    ELSE [lc |-> lc, value |-> NoEntry, ok |-> FALSE]

\* lru.Cache.Remove
lruRemove(lc, key) == [lc EXCEPT !.ll = Without(lc.ll, key)]

lruLen(lc) == Len(lc.ll)

(***************************************************************************)
(* package cache                                                           *)
(***************************************************************************)
NewCacheOversized(n) == lruNew(n + 1)

NewCache(n) == lruNew(n)

\* time.Since(e.Expires) > 0
ExpiredInclusive(e, t) == t - e.Expires >= 0

Expired(e, t) == t - e.Expires > 0

\* the expiringBits Set builds from the time it read and its arguments
NewExpiringBits(t, val, timeout) ==
    [Set |-> t, Expires |-> t + timeout, Bits |-> enc(val)]

\* Cache.Get between RLock and RUnlock: the store it leaves, the error and time
\* it returns and what it leaves in val
GetReturnsExpires(lc, key, val, t) ==
    LET g == lruGet(lc, key)
        d == gobDecode(g.value.Bits, val)
    IN  IF ~g.ok
        THEN [lc |-> g.lc, err |-> "notfound", time |-> NoTime, val |-> val]
        ELSE IF Expired(g.value, t)
        THEN [lc |-> lruRemove(g.lc, key), err |-> "expired", time |-> NoTime, val |-> val]
        ELSE IF d.err # "ok"
        THEN [lc |-> g.lc, err |-> "decode", time |-> NoTime, val |-> d.val]
        ELSE [lc |-> g.lc, err |-> "ok", time |-> g.value.Expires, val |-> d.val]

\* a Get that removes an entry it cannot decode
GetRemovesUndecodable(lc, key, val, t) ==
    LET g == lruGet(lc, key)
        d == gobDecode(g.value.Bits, val)
    IN  IF ~g.ok
        THEN [lc |-> g.lc, err |-> "notfound", time |-> NoTime, val |-> val]
        ELSE IF Expired(g.value, t)
        THEN [lc |-> lruRemove(g.lc, key), err |-> "expired", time |-> NoTime, val |-> val]
        ELSE IF d.err # "ok"
        THEN [lc |-> lruRemove(g.lc, key), err |-> "decode", time |-> NoTime, val |-> d.val]
        ELSE [lc |-> g.lc, err |-> "ok", time |-> g.value.Set, val |-> d.val]

CacheGet(lc, key, val, t) ==
    LET g == lruGet(lc, key)
        d == gobDecode(g.value.Bits, val)
    IN  IF ~g.ok
        THEN [lc |-> g.lc, err |-> "notfound", time |-> NoTime, val |-> val]
        ELSE IF Expired(g.value, t)
        THEN [lc |-> lruRemove(g.lc, key), err |-> "expired", time |-> NoTime, val |-> val]
        ELSE IF d.err # "ok"
        THEN [lc |-> g.lc, err |-> "decode", time |-> NoTime, val |-> d.val]
        ELSE [lc |-> g.lc, err |-> "ok", time |-> g.value.Set, val |-> d.val]

\* a Set that leaves the entry of a key already stored as it is
CacheSetKeepsExisting(lc, key, val, timeout, t) ==
    IF HasKey(lc.ll, key)
    THEN lc
    ELSE lruAdd(lc, key, NewExpiringBits(t, val, timeout))

\* Cache.Set from Lock to Unlock
CacheSet(lc, key, val, timeout, t) == lruAdd(lc, key, NewExpiringBits(t, val, timeout))

(***************************************************************************)
(* The record of the last completed call: its arguments, what it returned  *)
(* and what it found in the store.  start and end are the clock at the     *)
(* call and at its return.                                                 *)
(***************************************************************************)
NoCall ==
    [op |-> "none", key |-> 0, val |-> ZeroValue("A"), timeout |-> 0,
     t |-> NoTime, start |-> 0, end |-> 0,
     out0 |-> ZeroValue("A"), out |-> ZeroValue("A"), err |-> "", time |-> NoTime,
     had |-> FALSE, entry |-> NoEntry, lenBefore |-> 0, evicted |-> {}, victim |-> 0,
     afterSet |-> FALSE, afterExpired |-> FALSE, afterDecode |-> FALSE, changed |-> FALSE,
     prev |-> <<>>]

\* what the following call keeps of a completed Set
SetSummary(r) == <<r.val, r.timeout, r.t, r.start, r.end, r.had, r.changed>>

(***************************************************************************)
(* services.Opaque / services.Unopaque: authenticated encryption of a      *)
(* string under a secret key with a nonce carried in the token.  Opening   *)
(* fails for a malformed token and for one sealed under another key.       *)
(***************************************************************************)
SecretKeys == {"server", "other"}
Nonces == 1..MaxNonce

\* twilio.MonitorBaseURL, and the base URL of the rest of the API
MonitorBaseURL == "https://monitor.twilio.com"
APIBaseURL == "https://api.twilio.com"

\* strings: the empty string, and URLs as a base followed by a path
EmptyText == [base |-> "", path |-> 0]
URLs(base) == [base : {base}, path : 1..MaxCursor]
Cleartexts == {EmptyText} \cup URLs(MonitorBaseURL) \cup URLs(APIBaseURL)
HasPrefix(str, prefix) == str.base = prefix

NoToken == [kind |-> "empty", key |-> "", nonce |-> 0, body |-> EmptyText]
Garbage == [kind |-> "garbage", key |-> "", nonce |-> 0, body |-> EmptyText]
Opaque(cleartext, key, nonce) ==
    [kind |-> "sealed", key |-> key, nonce |-> nonce, body |-> cleartext]
Unopaque(token, key) ==
    IF token.kind = "sealed" /\ token.key = key
    THEN [str |-> token.body, err |-> FALSE]
    ELSE [str |-> EmptyText, err |-> TRUE]

\* the values a client can send as the `next` query parameter
Tokens ==
    {NoToken, Garbage} \cup
    {Opaque(t, k, n) : t \in Cleartexts, k \in SecretKeys, n \in Nonces}

\* getNext: no `next` parameter gives the empty string, otherwise the opened token
getNext(query, secretKey) ==
    IF query.next = NoToken
    THEN [str |-> EmptyText, err |-> FALSE]
    ELSE Unopaque(query.next, secretKey)

\* types.NullString
NullString == [Valid |-> FALSE, String |-> EmptyText]
Valid(str) == [Valid |-> TRUE, String |-> str]

\* getEncryptedPage: the empty string for a null cursor, else the sealed cursor
getEncryptedPage(npuri, secretKey, nonce) ==
    IF npuri.Valid THEN Opaque(npuri.String, secretKey, nonce) ELSE NoToken

\* time.Duration in minutes: the windows of lines 270-273.  The bucket named
\* "3 days" is computed with 24*time.Hour.
FiveMinutes == 5
Hour == 60
Day == 24 * Hour

\* views.Alert, by what alert.DateCreated() returns: an error, a null time, or a
\* valid time, given as the minutes between it and the time.Now() of line 97
AgeSamples == {1, 10, 2 * Hour, 2 * Day}
Alerts ==
    {[created |-> "err", age |-> 0], [created |-> "null", age |-> 0]} \cup
    {[created |-> "valid", age |-> a] : a \in AgeSamples}

\* the lists of at most n alerts drawn from a set
RECURSIVE AlertListsOf(_, _)
AlertListsOf(set, n) ==
    IF n = 0 THEN {<<>>}
    ELSE LET shorter == AlertListsOf(set, n - 1)
         IN  shorter \cup {Append(l, a) : l \in {m \in shorter : Len(m) = n - 1}, a \in set}
AlertLists(n) == AlertListsOf(Alerts, n)

\* the alerts of the pages s.Client returns to the handler: recent ones
PageAlerts == AlertListsOf({[created |-> "valid", age |-> 1]}, MaxPageAlerts)

\* views.AlertPage: its cursors and its alerts; new(views.AlertPage) has none
EmptyPage == [empty |-> TRUE, next |-> NullString, prev |-> NullString, alerts |-> <<>>]
Cursors == {NullString} \cup {Valid(u) : u \in URLs(MonitorBaseURL)}
Pages == [empty : {FALSE}, next : Cursors, prev : Cursors, alerts : PageAlerts]

\* the loop of lines 98-107: the alerts whose creation time reads without an
\* error, is valid and lies less than `since` before now
RECURSIVE CountSince(_, _)
CountSince(alerts, since) ==
    IF alerts = <<>> THEN 0
    ELSE (IF Head(alerts).created = "valid" /\ Head(alerts).age < since THEN 1 ELSE 0)
         + CountSince(Tail(alerts), since)

\* getAlertFrequency with HaveMore set whenever the count reaches the length
getAlertFrequencyNoGuard(alerts, name, since) ==
    LET count == CountSince(alerts, since)
    IN  [Name |-> name, Count |-> count, Since |-> since,
         HaveMore |-> count >= Len(alerts)]

\* getAlertFrequency, lines 96-114
getAlertFrequency(alerts, name, since) ==
    LET count == CountSince(alerts, since)
    IN  [Name |-> name, Count |-> count, Since |-> since,
         HaveMore |-> count > 0 /\ count >= Len(alerts)]

\* lines 268-275: ad.Freq for the alerts of a first page
Frequencies(alerts) ==
    <<getAlertFrequency(alerts, "5 minutes", FiveMinutes),
      getAlertFrequency(alerts, "hour", Hour),
      getAlertFrequency(alerts, "day", Day),
      getAlertFrequency(alerts, "3 days", Day)>>

\* what s.Client.GetAlertPageInRange / GetNextAlertPageInRange return: a page, the
\* sentinel twilio.NoMoreResults, a *rest.Error with a status code, another error
\* (a transport error, the context's deadline)
Results ==
    {[kind |-> "page", page |-> pg] : pg \in Pages} \cup
    {[kind |-> k, page |-> EmptyPage] : k \in {"nomore", "rest400", "rest404", "rest500", "other"}}

Requests ==
    [hasUser : BOOLEAN, canViewAlerts : BOOLEAN, timesOK : BOOLEAN, filtersOK : BOOLEAN,
     next : Tokens]

NoRequest ==
    [hasUser |-> FALSE, canViewAlerts |-> FALSE, timesOK |-> FALSE, filtersOK |-> FALSE,
     next |-> NoToken]
\* fetched and cursor are history: what the handler's fetch returned, and for which
\* cursor.  ctx is the context of line 200: "none" before it is made, "live",
\* "expired" once its 3 seconds have passed, "cancelled" once cancel has run or the
\* request's own context was cancelled.
NoLocals == [next |-> EmptyText, nextErr |-> FALSE, err |-> "", page |-> EmptyPage,
             fetched |-> "", cursor |-> EmptyText, ctx |-> "none"]
\* alertListData: Page, EncryptedNextPage, EncryptedPreviousPage, Freq
NoResponse == [status |-> 0, msg |-> "", page |-> EmptyPage, nextTok |-> NoToken,
               prevTok |-> NoToken, freq |-> <<>>]
\* err is the error of the goroutine's call; after tells whether the call returned
\* after the handler had
NoTask == [state |-> "none", n |-> NullString, failed |-> FALSE, err |-> "",
           after |-> FALSE]
NoCounts == [opened |-> 0, client |-> 0, prefetch |-> 0]
\* tok is a token a served page carried and cursor the cursor it was sealed from;
\* uses counts the fetches made for requests that presented tok
NoPast == [requests |-> 0, tok |-> NoToken, cursor |-> EmptyText, uses |-> 0]

\* alertListData.NextQuery / PreviousQuery, lines 61-87: the `next` parameter of the
\* links of the page, absent for an empty token
NextQuery(ad) == [next |-> ad.nextTok]
PreviousQuery(ad) == [next |-> ad.prevTok]

\* rest.ServerError, rest.Forbidden, rest.NotFound, renderError: the status and error
Failure(status, msg) == [NoResponse EXCEPT !.status = status, !.msg = msg]

AlertIdle ==
    /\ hpc = "idle"
    /\ req = NoRequest
    /\ loc = NoLocals
    /\ resp = NoResponse
    /\ task = NoTask
    /\ cnt = NoCounts
    /\ past = NoPast

\* got is history: what the call on the twilio client returned
NoAnswer == [err |-> "", data |-> <<>>]
NoClientCall == [op |-> "none", state |-> "idle", user |-> <<>>, upstream |-> 0,
                 err |-> "", result |-> <<>>, got |-> NoAnswer]
ClientIdle == cl = NoClientCall

NoArg == [op |-> "none", key |-> 0, val |-> ZeroValue("A"), timeout |-> 0, t |-> NoTime,
          e |-> NoEntry, err |-> "", time |-> NoTime]

\* no goroutine is in a call
RWIdle ==
    /\ mu = [w |-> 0, r |-> {}]
    /\ pc = [p \in Procs |-> "idle"]
    /\ arg = [p \in Procs |-> NoArg]
    /\ calls = 0

Init ==
    /\ size \in Sizes
    /\ c = NewCache(size)
    /\ now = 0
    /\ last = NoCall
    /\ recency = <<>>
    /\ expiredKeys = {}
    /\ RWIdle
    /\ AlertIdle
    /\ ClientIdle

\* the wall clock advances
Tick ==
    /\ now < MaxClock
    /\ now' = now + 1
    /\ UNCHANGED <<size, c, hist, rwVars, notCache>>

\* Cache.Set, lines 304-315.  The call reads the clock first (line 305) and
\* builds and adds the entry under the write lock afterwards (lines 306-315),
\* so the time t it records is the clock at the call, anywhere between the
\* return of the caller's previous call and the clock at this return.
Set(key, val, timeout, t) ==
    /\ last.end <= t /\ t <= now
    /\ LET after == CacheSet(c, key, val, timeout, t)
           touched == <<key>> \o SelectSeq(recency, LAMBDA k : k # key)
       IN  /\ c' = after
           /\ recency' = SelectSeq(touched, LAMBDA k : k \in KeysOf(after.ll))
           /\ last' = [NoCall EXCEPT
                  !.op = "set", !.key = key, !.val = val, !.timeout = timeout,
                  !.t = t, !.start = t, !.end = now,
                  !.had = HasKey(c.ll, key),
                  !.changed = /\ HasKey(c.ll, key)
                              /\ At(c.ll, key).value.Bits # enc(val)
                              /\ At(c.ll, key).value.Expires # t + timeout,
                  !.lenBefore = lruLen(c),
                  !.evicted = KeysOf(c.ll) \ KeysOf(after.ll),
                  !.victim = IF recency = <<>> THEN 0 ELSE recency[Len(recency)]]
    /\ expiredKeys' = expiredKeys \ {key}
    /\ UNCHANGED <<size, now, rwVars, notCache>>

\* Cache.Get, lines 273-302
Get(key, val) ==
    /\ LET r == CacheGet(c, key, val, now)
           touched == IF HasKey(c.ll, key)
                      THEN <<key>> \o SelectSeq(recency, LAMBDA k : k # key)
                      ELSE recency
       IN  /\ c' = r.lc
           /\ recency' = SelectSeq(touched, LAMBDA k : k \in KeysOf(r.lc.ll))
           /\ expiredKeys' = IF r.err = "expired" THEN expiredKeys \cup {key} ELSE expiredKeys
           /\ last' = [NoCall EXCEPT
                  !.op = "get", !.key = key, !.out0 = val, !.out = r.val, !.err = r.err,
                  !.time = r.time, !.t = now, !.start = now, !.end = now,
                  !.had = HasKey(c.ll, key),
                  !.entry = IF HasKey(c.ll, key) THEN At(c.ll, key).value ELSE NoEntry,
                  !.lenBefore = lruLen(c),
                  !.evicted = KeysOf(c.ll) \ KeysOf(r.lc.ll),
                  !.afterSet = (last.op = "set" /\ last.key = key),
                  !.prev = IF last.op = "set" /\ last.key = key THEN SetSummary(last) ELSE <<>>,
                  !.afterExpired = key \in expiredKeys,
                  !.afterDecode = (last.op = "get" /\ last.key = key /\ last.err = "decode")]
    /\ UNCHANGED <<size, now, rwVars, notCache>>

Next ==
    \/ Tick
    \/ \E key \in KeysFor(size), val \in Values, timeout \in TTLs, t \in 0..MaxClock :
           Set(key, val, timeout, t)
    \/ \E key \in KeysFor(size), val \in Destinations : Get(key, val)

Spec == Init /\ [][Next]_vars

(***************************************************************************)
(* Claims about the cache, checked under Spec.                             *)
(***************************************************************************)
\* the Set that the last call, a Get of the same key, followed immediately
PrevVal == last.prev[1]
PrevTimeout == last.prev[2]
PrevT == last.prev[3]
PrevStart == last.prev[4]
PrevEnd == last.prev[5]

GetRightAfterSet ==
    /\ last.op = "get" /\ last.afterSet
    /\ PrevTimeout > 0
    /\ last.t <= PrevT + PrevTimeout
    /\ last.out0.shape = PrevVal.shape

RoundTripResult ==
    /\ last.err = "ok"
    /\ last.out = PrevVal
    /\ last.time = PrevT
    /\ PrevStart <= last.time /\ last.time <= PrevEnd

\* C1 as stated: for every value v, TTL d > 0 and destination out of v's type,
\* Set(k, v, d) followed immediately by Get(k, &out), the clock not past the
\* expiry, succeeds, leaves out equal to v and returns the time the Set recorded,
\* which lies between the start and the end of the Set call.
C1_RoundTripAnyDestination == GetRightAfterSet => RoundTripResult

\* C1, amended: the same, for a destination out that holds the zero value of
\* v's type before the Get.
C1_RoundTrip ==
    (GetRightAfterSet /\ last.out0 = ZeroValue(PrevVal.shape)) => RoundTripResult

C1_Witness ==
    /\ GetRightAfterSet /\ last.out0 = ZeroValue(PrevVal.shape)
    /\ last.err = "ok" /\ last.out.f # 0
    /\ PrevStart < PrevEnd

\* C2: a Get of a stored key whose expiry the clock has passed (now > Expires,
\* where Expires is the stored time plus the TTL of the Set) returns expired,
\* leaves the destination alone and removes the entry; the next Get of that key,
\* with no Set of it in between, returns not found; while now <= Expires the
\* entry stays stored and is served to a destination of its shape.
C2_ExpiryOnGet ==
    /\ (last.op = "set") =>
          /\ HasKey(c.ll, last.key)
          /\ At(c.ll, last.key).value.Expires = last.t + last.timeout
    /\ (last.op = "get" /\ last.had /\ last.t > last.entry.Expires) =>
          /\ last.err = "expired"
          /\ last.out = last.out0
          /\ ~HasKey(c.ll, last.key)
    /\ (last.op = "get" /\ last.afterExpired) => last.err = "notfound"
    /\ (last.op = "get" /\ last.had /\ last.t <= last.entry.Expires) =>
          /\ last.err \in {"ok", "decode"}
          /\ HasKey(c.ll, last.key)
          /\ (last.out0.shape = last.entry.Bits.shape) =>
                (last.err = "ok" /\ last.time = last.entry.Set)

C2_Witness ==
    /\ last.op = "get" /\ last.afterExpired /\ last.err = "notfound"
    /\ now = MaxClock

\* a Set of a new key into a cache that holds as many entries as its limit
IntoFull == last.op = "set" /\ ~last.had /\ c.MaxEntries # 0 /\ last.lenBefore = c.MaxEntries

EvictsLeastRecent ==
    (last.op = "set") =>
        IF IntoFull THEN last.evicted = {last.victim} ELSE last.evicted = {}

\* C3 as stated: the number of stored entries never exceeds the size given to
\* NewCache, and a Set of a new key into a full cache evicts exactly the least
\* recently accessed entry.
C3_NeverExceedsSize == lruLen(c) <= size /\ EvictsLeastRecent

\* C3, amended: for a size of at least 1 the number of stored entries never
\* exceeds the size; a Set of a new key into a full cache evicts exactly the
\* entry least recently accessed by Set or Get, and no other Set evicts.
C3_BoundedLRU == (size >= 1 => lruLen(c) <= size) /\ EvictsLeastRecent

\* the evicted entry was not the one stored first: a Get had refreshed that one
C3_Witness ==
    /\ size >= 2 /\ IntoFull /\ last.evicted = {last.victim}
    /\ lruLen(c) = size
    /\ \E i \in 1..Len(c.ll) : c.ll[i].key # last.key /\ c.ll[i].key < last.victim

\* C20: every entry held by the cache expires after the time it was stored,
\* whatever TTL its Set was given.
C20_ExpiresAfterStored ==
    \A i \in 1..Len(c.ll) : c.ll[i].value.Expires > c.ll[i].value.Set

\* the Set before the last call, a Get of the same key, replaced an entry
PrevHad == last.prev[6]
PrevChanged == last.prev[7]

\* a Set of a key already stored keeps the number of entries, evicts nothing
\* and leaves for the key the entry built from its own arguments
OverwriteInPlace ==
    (last.op = "set" /\ last.had) =>
        /\ lruLen(c) = last.lenBefore
        /\ last.evicted = {}
        /\ HasKey(c.ll, last.key)
        /\ At(c.ll, last.key).value.Set = last.t
        /\ At(c.ll, last.key).value.Expires = last.t + last.timeout
        /\ At(c.ll, last.key).value.Bits = enc(last.val)

\* a Get of the key right after the Set that replaced its entry
GetAfterOverwrite == last.op = "get" /\ last.afterSet /\ PrevHad

\* the Get finds the entry of the second Set and is decided by its expiry alone
SecondSetDecides ==
    /\ last.had
    /\ last.entry.Set = PrevT
    /\ last.entry.Expires = PrevT + PrevTimeout
    /\ last.entry.Bits = enc(PrevVal)
    /\ (last.t > PrevT + PrevTimeout) => last.err = "expired"

\* C21 as stated: Set(k, v2, d2) on a key that holds an entry keeps the number
\* of entries and evicts no key, and a following Get(k, &out), for any out of
\* v2's type and the clock not past the second Set's expiry, returns v2 and the
\* stored time of the second Set.
C21_OverwriteThenGetAnyDestination ==
    /\ OverwriteInPlace
    /\ GetAfterOverwrite =>
          /\ SecondSetDecides
          /\ (last.t <= PrevT + PrevTimeout /\ last.out0.shape = PrevVal.shape) =>
                (last.err = "ok" /\ last.out = PrevVal /\ last.time = PrevT)

\* C21, amended: the same, for a destination out that holds the zero value of
\* v2's type before the Get.
C21_OverwriteThenGet ==
    /\ OverwriteInPlace
    /\ GetAfterOverwrite =>
          /\ SecondSetDecides
          /\ (last.t <= PrevT + PrevTimeout /\ last.out0 = ZeroValue(PrevVal.shape)) =>
                (last.err = "ok" /\ last.out = PrevVal /\ last.time = PrevT)

\* the second Set replaced an entry of another value, stored at another time
\* and already expired, and the Get returned the second value
C21_Witness ==
    /\ GetAfterOverwrite /\ last.out0 = ZeroValue(PrevVal.shape)
    /\ last.err = "ok" /\ last.out = PrevVal /\ last.time = PrevT
    /\ PrevChanged

\* the four ways a Get ends
GetOutcomes == {"ok", "notfound", "expired", "decode"}

\* which way a Get ends is decided by the entry it finds, the clock and the
\* type of its destination, so that exactly one of the four applies
OutcomeDecided ==
    (last.op = "get") =>
        /\ last.err \in GetOutcomes
        /\ (last.err = "notfound") <=> ~last.had
        /\ (last.err = "expired") <=> (last.had /\ last.t > last.entry.Expires)
        /\ (last.err = "decode") <=>
              /\ last.had /\ last.t <= last.entry.Expires
              /\ last.out0.shape # last.entry.Bits.shape
        /\ (last.err = "ok") <=>
              /\ last.had /\ last.t <= last.entry.Expires
              /\ last.out0.shape = last.entry.Bits.shape

\* a Get of the key right after a Get of it that could not decode finds the
\* entry, and returns it to a destination of its type unless it has expired
DecodeErrorKeepsEntry ==
    (last.op = "get" /\ last.afterDecode) =>
        /\ last.had
        /\ (last.out0.shape = last.entry.Bits.shape /\ last.t <= last.entry.Expires) =>
              (last.err = "ok" /\ last.time = last.entry.Set)

\* every entry stored after the step was stored before it, with the same
\* payload, stored time and expiry
EntriesKept ==
    \A k \in KeysOf(c'.ll) : HasKey(c.ll, k) /\ At(c'.ll, k).value = At(c.ll, k).value

\* a step of Get: the only step that records a Get and leaves the clock alone
GetFrame ==
    (last'.op = "get" /\ now' = now) =>
        /\ EntriesKept
        /\ (last'.err \in {"ok", "notfound", "decode"}) => KeysOf(c'.ll) = KeysOf(c.ll)
        /\ (last'.err = "expired") => KeysOf(c'.ll) = KeysOf(c.ll) \ {last'.key}

\* C22: every Get ends in exactly one of success, NotFound, Expired and
\* DecodeError; a Get changes no entry's payload, stored time or expiry;
\* NotFound, DecodeError and success leave the set of stored keys as it was,
\* so that a Get of the same key after a DecodeError, with a destination of the
\* right type and the entry not yet expired, succeeds; Expired removes the
\* looked-up key and no other.
C22_GetOutcomesAndFrame ==
    /\ [](OutcomeDecided /\ DecodeErrorKeepsEntry)
    /\ [][GetFrame]_vars

\* a Get succeeded right after a Get of the same key had failed to decode,
\* with another key stored beside it
C22_Witness ==
    /\ last.op = "get" /\ last.afterDecode
    /\ last.err = "ok" /\ last.out.f # 0
    /\ lruLen(c) = 2

(***************************************************************************)
(* SpecRW: Get and Set statement by statement, called by the goroutines    *)
(* Procs.  sync.RWMutex: Lock waits until no goroutine holds the lock,     *)
(* RLock until no goroutine holds it for writing.                          *)
(***************************************************************************)
InitRW ==
    /\ size \in Sizes
    /\ c = NewCache(size)
    /\ now = 0
    /\ last = NoCall
    /\ recency = <<>>
    /\ expiredKeys = {}
    /\ RWIdle
    /\ AlertIdle
    /\ ClientIdle

\* the statements of Get and Set that write to the lru.Cache
MutatingPCs == {"move", "remove", "add"}

\* A write to the store by p while another goroutine holds the lock is a data
\* race: the write may take effect or be lost.
Racing(p) == \E q \in Procs \ {p} : q \in mu.r \/ mu.w = q
RaceOutcomes(p, before, intended) == IF Racing(p) THEN {intended, before} ELSE {intended}

TickRW ==
    /\ now < MaxClock
    /\ now' = now + 1
    /\ UNCHANGED <<size, c, hist, rwVars, notCache>>

\* a goroutine calls Get (line 273)
GetEnter(p, key, val) ==
    /\ pc[p] = "idle" /\ calls < MaxCalls
    /\ calls' = calls + 1
    /\ arg' = [arg EXCEPT ![p] = [NoArg EXCEPT !.op = "get", !.key = key, !.val = val]]
    /\ pc' = [pc EXCEPT ![p] = "rlock"]
    /\ UNCHANGED <<size, c, now, hist, mu, notCache>>

\* line 274: c.mu.RLock()
GetRLock(p) ==
    /\ pc[p] = "rlock"
    /\ mu.w = 0
    /\ mu' = [mu EXCEPT !.r = @ \cup {p}]
    /\ pc' = [pc EXCEPT ![p] = "lookup"]
    /\ UNCHANGED <<size, c, now, hist, arg, calls, notCache>>

\* lines 276-280: c.c.Get looks the key up in the map; a miss returns errNotFound
GetLookup(p) ==
    /\ pc[p] = "lookup"
    /\ IF HasKey(c.ll, arg[p].key)
       THEN /\ arg' = [arg EXCEPT ![p].e = At(c.ll, arg[p].key).value]
            /\ pc' = [pc EXCEPT ![p] = "move"]
       ELSE /\ arg' = [arg EXCEPT ![p].err = "notfound"]
            /\ pc' = [pc EXCEPT ![p] = "runlock"]
    /\ UNCHANGED <<size, c, now, hist, mu, calls, notCache>>

\* line 276, inside c.c.Get: the hit is moved to the front of the list
GetMove(p) ==
    /\ pc[p] = "move"
    /\ c' \in RaceOutcomes(p, c, lruGet(c, arg[p].key).lc)
    /\ pc' = [pc EXCEPT ![p] = "check"]
    /\ UNCHANGED <<size, now, hist, mu, arg, calls, notCache>>

\* lines 281-301: the expiry test, and the decoding of an entry that has not expired
GetCheck(p) ==
    /\ pc[p] = "check"
    /\ IF Expired(arg[p].e, now)
       THEN /\ pc' = [pc EXCEPT ![p] = "remove"]
            /\ UNCHANGED arg
       ELSE LET d == gobDecode(arg[p].e.Bits, arg[p].val)
            IN  /\ arg' = [arg EXCEPT ![p].val = d.val, ![p].err = d.err,
                                      ![p].time = IF d.err = "ok" THEN arg[p].e.Set ELSE NoTime]
                /\ pc' = [pc EXCEPT ![p] = "runlock"]
    /\ UNCHANGED <<size, c, now, hist, mu, calls, notCache>>

\* lines 288-289: c.c.Remove(key); return expired
GetRemove(p) ==
    /\ pc[p] = "remove"
    /\ c' \in RaceOutcomes(p, c, lruRemove(c, arg[p].key))
    /\ arg' = [arg EXCEPT ![p].err = "expired"]
    /\ pc' = [pc EXCEPT ![p] = "runlock"]
    /\ UNCHANGED <<size, now, hist, mu, calls, notCache>>

\* line 275: the deferred c.mu.RUnlock(), and the return
GetRUnlock(p) ==
    /\ pc[p] = "runlock"
    /\ mu' = [mu EXCEPT !.r = @ \ {p}]
    /\ pc' = [pc EXCEPT ![p] = "idle"]
    /\ arg' = [arg EXCEPT ![p] = NoArg]
    /\ UNCHANGED <<size, c, now, hist, calls, notCache>>

\* a goroutine calls Set; line 305: now := time.Now().UTC()
SetEnter(p, key, val, timeout) ==
    /\ pc[p] = "idle" /\ calls < MaxCalls
    /\ calls' = calls + 1
    /\ arg' = [arg EXCEPT ![p] = [NoArg EXCEPT !.op = "set", !.key = key, !.val = val,
                                               !.timeout = timeout, !.t = now]]
    /\ pc' = [pc EXCEPT ![p] = "lock"]
    /\ UNCHANGED <<size, c, now, hist, mu, notCache>>

\* line 306: c.mu.Lock()
SetLock(p) ==
    /\ pc[p] = "lock"
    /\ mu.w = 0 /\ mu.r = {}
    /\ mu' = [mu EXCEPT !.w = p]
    /\ pc' = [pc EXCEPT ![p] = "add"]
    /\ UNCHANGED <<size, c, now, hist, arg, calls, notCache>>

\* lines 308-314: the entry is built and added
SetAdd(p) ==
    /\ pc[p] = "add"
    /\ c' \in RaceOutcomes(p, c, CacheSet(c, arg[p].key, arg[p].val, arg[p].timeout, arg[p].t))
    /\ pc' = [pc EXCEPT ![p] = "unlock"]
    /\ UNCHANGED <<size, now, hist, mu, arg, calls, notCache>>

\* line 307: the deferred c.mu.Unlock(), and the return
SetUnlock(p) ==
    /\ pc[p] = "unlock"
    /\ mu' = [mu EXCEPT !.w = 0]
    /\ pc' = [pc EXCEPT ![p] = "idle"]
    /\ arg' = [arg EXCEPT ![p] = NoArg]
    /\ UNCHANGED <<size, c, now, hist, calls, notCache>>

NextRW ==
    \/ TickRW
    \/ \E p \in Procs, key \in KeysFor(size), val \in Destinations : GetEnter(p, key, val)
    \/ \E p \in Procs : GetRLock(p)
    \/ \E p \in Procs : GetLookup(p)
    \/ \E p \in Procs : GetMove(p)
    \/ \E p \in Procs : GetCheck(p)
    \/ \E p \in Procs : GetRemove(p)
    \/ \E p \in Procs : GetRUnlock(p)
    \/ \E p \in Procs, key \in KeysFor(size), val \in Values, timeout \in TTLs :
           SetEnter(p, key, val, timeout)
    \/ \E p \in Procs : SetLock(p)
    \/ \E p \in Procs : SetAdd(p)
    \/ \E p \in Procs : SetUnlock(p)

SpecRW == InitRW /\ [][NextRW]_vars

\* C4: a goroutine about to write to the store (the move to the front inside
\* c.c.Get, c.c.Remove of an expired entry, c.c.Add) holds the lock for writing
\* and no goroutine holds it for reading, so no two goroutines are at such a
\* statement together.
C4_MutationsHoldWriteLock ==
    /\ \A p \in Procs : pc[p] \in MutatingPCs => (mu.w = p /\ mu.r = {})
    /\ Cardinality({p \in Procs : pc[p] \in MutatingPCs}) <= 1

(***************************************************************************)
(* SpecAlert: alertListServer.ServeHTTP, part by part in the order of the  *)
(* code, and the goroutine it starts.  The handler's fetch is a call made   *)
(* under ctx (line 200) and its return: what upstream answered, or the     *)
(* context's error once its 3 seconds have passed or the request's own     *)
(* context was cancelled.  The goroutine's fetch is a call made under      *)
(* context.Background() and its return.  Requests follow one another; the  *)
(* handler keeps nothing from one to the next.  The rendering of templates *)
(* is outside the model; the status is the one passed to WriteHeader.      *)
(***************************************************************************)
InitAlert ==
    /\ size = 0
    /\ c = NewCache(size)
    /\ now = 0
    /\ last = NoCall
    /\ recency = <<>>
    /\ expiredKeys = {}
    /\ RWIdle
    /\ AlertIdle
    /\ ClientIdle

\* a request arrives, the first or one following a request that has returned; the
\* model follows one request and the goroutine it started at a time
Request(r) ==
    /\ hpc \in {"idle", "done"}
    /\ task.state \in {"none", "done"}
    /\ past.requests < MaxRequests
    /\ req' = r
    /\ hpc' = "auth"
    /\ loc' = NoLocals
    /\ resp' = NoResponse
    /\ task' = NoTask
    /\ cnt' = NoCounts
    /\ past' = [past EXCEPT !.requests = @ + 1]
    /\ UNCHANGED <<cacheVars, cl>>

\* lines 183-191 without the capability test
AuthSkipsCapability ==
    /\ hpc = "auth"
    /\ IF ~req.hasUser
       THEN resp' = Failure(500, "nouser") /\ hpc' = "done"
       ELSE resp' = resp /\ hpc' = "times"
    /\ UNCHANGED <<req, loc, task, cnt, past, cacheVars, cl>>

\* lines 183-191: config.GetUser, u.CanViewAlerts
Auth ==
    /\ hpc = "auth"
    /\ IF ~req.hasUser
       THEN resp' = Failure(500, "nouser") /\ hpc' = "done"
       ELSE IF ~req.canViewAlerts
       THEN resp' = Failure(403, "denied") /\ hpc' = "done"
       ELSE resp' = resp /\ hpc' = "times"
    /\ UNCHANGED <<req, loc, task, cnt, past, cacheVars, cl>>

\* lines 192-199: getTimes either writes an error itself or gives the time range
GetTimes ==
    /\ hpc = "times"
    /\ IF ~req.timesOK
       THEN resp' = Failure(400, "times") /\ hpc' = "done"
       ELSE resp' = resp /\ hpc' = "token"
    /\ UNCHANGED <<req, loc, task, cnt, past, cacheVars, cl>>

\* line 201, defer cancel(): the context is cancelled when the handler returns
deferredCancel(l) == [l EXCEPT !.ctx = IF @ = "live" THEN "cancelled" ELSE @]

\* lines 200-208 with nextErr ignored
ResolveTokenIgnoresError ==
    /\ hpc = "token"
    /\ LET n == getNext(req, "server")
       IN  /\ cnt' = [cnt EXCEPT !.opened = IF req.next = NoToken THEN @ ELSE @ + 1]
           /\ loc' = [loc EXCEPT !.next = n.str, !.nextErr = n.err, !.ctx = "live"]
           /\ resp' = resp /\ hpc' = "fetch"
    /\ UNCHANGED <<req, task, past, cacheVars, cl>>

\* lines 200-208 with the token opened under another key than the one that sealed it
ResolveTokenWrongKey ==
    /\ hpc = "token"
    /\ LET n == getNext(req, "other")
       IN  /\ cnt' = [cnt EXCEPT !.opened = IF req.next = NoToken THEN @ ELSE @ + 1]
           /\ IF n.err
              THEN /\ loc' = [loc EXCEPT !.next = n.str, !.nextErr = n.err, !.ctx = "cancelled"]
                   /\ resp' = Failure(400, "decrypt") /\ hpc' = "done"
              ELSE /\ loc' = [loc EXCEPT !.next = n.str, !.nextErr = n.err, !.ctx = "live"]
                   /\ resp' = resp /\ hpc' = "fetch"
    /\ UNCHANGED <<req, task, past, cacheVars, cl>>

\* lines 200-208: the context with its 3 second timeout is made and getNext opens
\* the `next` parameter under s.secretKey; a failure is a 400
ResolveToken ==
    /\ hpc = "token"
    /\ LET n == getNext(req, "server")
       IN  /\ cnt' = [cnt EXCEPT !.opened = IF req.next = NoToken THEN @ ELSE @ + 1]
           /\ IF n.err
              THEN /\ loc' = [loc EXCEPT !.next = n.str, !.nextErr = n.err, !.ctx = "cancelled"]
                   /\ resp' = Failure(400, "decrypt") /\ hpc' = "done"
              ELSE /\ loc' = [loc EXCEPT !.next = n.str, !.nextErr = n.err, !.ctx = "live"]
                   /\ resp' = resp /\ hpc' = "fetch"
    /\ UNCHANGED <<req, task, past, cacheVars, cl>>

\* the call on s.Client at line 217 or 226 is made, under ctx
ClientFetch(cursor) ==
    /\ loc' = [loc EXCEPT !.cursor = cursor]
    /\ cnt' = [cnt EXCEPT !.client = @ + 1]
    /\ past' = IF req.next # NoToken /\ req.next = past.tok
               THEN [past EXCEPT !.uses = @ + 1]
               ELSE past
    /\ resp' = resp /\ hpc' = "await"

\* the handler returns after renderError(400)
BadRequest(msg) ==
    /\ resp' = Failure(400, msg) /\ hpc' = "done"
    /\ loc' = deferredCancel(loc)
    /\ UNCHANGED <<cnt, past>>

\* lines 209-227 without the test of line 212
FetchSkipsPrefixTest ==
    /\ hpc = "fetch"
    /\ IF loc.next # EmptyText
       THEN ClientFetch(loc.next)
       ELSE IF ~req.filtersOK
            THEN BadRequest("filter")
            ELSE ClientFetch(EmptyText)
    /\ UNCHANGED <<req, task, cacheVars, cl>>

\* lines 209-227: a next page for a cursor that starts with MonitorBaseURL, else
\* the first page for the filters of the query
Fetch ==
    /\ hpc = "fetch"
    /\ IF loc.next # EmptyText
       THEN IF ~HasPrefix(loc.next, MonitorBaseURL)
            THEN BadRequest("invalid_uri")
            ELSE ClientFetch(loc.next)
       ELSE IF ~req.filtersOK
            THEN BadRequest("filter")
            ELSE ClientFetch(EmptyText)
    /\ UNCHANGED <<req, task, cacheVars, cl>>

\* the call of line 217 or 226 returns what upstream answered
FetchReturn ==
    /\ hpc = "await"
    /\ \E r \in Results :
          loc' = [loc EXCEPT !.page = r.page, !.fetched = r.kind,
                             !.err = IF r.kind = "page" THEN "" ELSE r.kind]
    /\ hpc' = "classify"
    /\ UNCHANGED <<req, resp, task, cnt, past, cacheVars, cl>>

\* a context whose deadline never passes
FetchNoDeadline ==
    /\ hpc = "await" /\ loc.ctx = "live"
    /\ UNCHANGED vars

\* the 3 seconds of ctx (line 200) pass before upstream has answered: the call
\* returns the context's error
FetchDeadline ==
    /\ hpc = "await" /\ loc.ctx = "live"
    /\ loc' = [loc EXCEPT !.page = EmptyPage, !.fetched = "deadline", !.err = "deadline",
                          !.ctx = "expired"]
    /\ hpc' = "classify"
    /\ UNCHANGED <<req, resp, task, cnt, past, cacheVars, cl>>

\* the request's own context, the parent of ctx, is cancelled (the client went
\* away): a call waiting under ctx returns the context's error
RequestCanceled ==
    /\ hpc \in {"await", "classify", "spawn", "respond"} /\ loc.ctx = "live"
    /\ IF hpc = "await"
       THEN /\ loc' = [loc EXCEPT !.page = EmptyPage, !.fetched = "canceled",
                                  !.err = "canceled", !.ctx = "cancelled"]
            /\ hpc' = "classify"
       ELSE /\ loc' = [loc EXCEPT !.ctx = "cancelled"]
            /\ hpc' = hpc
    /\ UNCHANGED <<req, resp, task, cnt, past, cacheVars, cl>>

\* lines 232-247 with every error answered as a server error
ErrorResponseAlwaysServerError(err) == Failure(500, "server")

\* lines 232-247: the response for a fetch error
ErrorResponse(err) ==
    IF err = "rest400" THEN Failure(400, "upstream")
    ELSE IF err = "rest404" THEN Failure(404, "notfound")
    ELSE Failure(500, "server")

\* lines 228-247 without the test for twilio.NoMoreResults
ClassifyNoSentinel ==
    /\ hpc = "classify"
    /\ IF loc.err # ""
       THEN resp' = ErrorResponse(loc.err) /\ hpc' = "done" /\ loc' = deferredCancel(loc)
       ELSE resp' = resp /\ hpc' = "spawn" /\ loc' = loc
    /\ UNCHANGED <<req, task, cnt, past, cacheVars, cl>>

\* lines 228-247: NoMoreResults becomes an empty page and no error; any other
\* error is answered by its classification
Classify ==
    /\ hpc = "classify"
    /\ LET err == IF loc.err = "nomore" THEN "" ELSE loc.err
           page == IF loc.err = "nomore" THEN EmptyPage ELSE loc.page
       IN  IF err # ""
           THEN /\ loc' = deferredCancel([loc EXCEPT !.err = err, !.page = page])
                /\ resp' = ErrorResponse(err) /\ hpc' = "done"
           ELSE /\ loc' = [loc EXCEPT !.err = err, !.page = page]
                /\ resp' = resp /\ hpc' = "spawn"
    /\ UNCHANGED <<req, task, cnt, past, cacheVars, cl>>

\* lines 249-255: go func(...)(u, page.NextPageURI(), startTime, endTime)
Spawn ==
    /\ hpc = "spawn"
    /\ task' = [NoTask EXCEPT !.state = "spawned", !.n = loc.page.next]
    /\ hpc' = "respond"
    /\ UNCHANGED <<req, loc, resp, cnt, past, cacheVars, cl>>

\* lines 256-283 for the two tokens of the page: the page, its tokens and, for a
\* first page, its frequencies are written with status 200, and the handler
\* returns.  past remembers one of the tokens, that of the forward or of the
\* backward link.
ServePage(nextTok, prevTok) ==
    /\ resp' = [status |-> 200, msg |-> "", page |-> loc.page,
                nextTok |-> nextTok, prevTok |-> prevTok,
                freq |-> IF loc.next = EmptyText
                         THEN Frequencies(loc.page.alerts)
                         ELSE <<>>]
    /\ loc' = deferredCancel(loc)
    /\ \E link \in {"next", "prev"} :
          LET tok == IF link = "next" THEN nextTok ELSE prevTok
              cur == IF link = "next" THEN loc.page.next ELSE loc.page.prev
          IN  past' = IF past.tok = NoToken /\ cur.Valid
                      THEN [past EXCEPT !.tok = tok, !.cursor = cur.String]
                      ELSE past
    /\ hpc' = "done"
    /\ UNCHANGED <<req, task, cnt, cacheVars, cl>>

\* a cursor attached to the page as it is
Raw(npuri) ==
    IF npuri.Valid
    THEN [kind |-> "clear", key |-> "", nonce |-> 0, body |-> npuri.String]
    ELSE NoToken

\* lines 256-283 with the cursors attached unsealed
RespondRawCursors ==
    /\ hpc = "respond"
    /\ ServePage(Raw(loc.page.next), Raw(loc.page.prev))

\* lines 256-283: getEncryptedPage seals the cursors of the page
Respond ==
    /\ hpc = "respond"
    /\ \E n1, n2 \in Nonces :
          ServePage(getEncryptedPage(loc.page.next, "server", n1),
                    getEncryptedPage(loc.page.prev, "server", n2))

\* line 250: the goroutine starts; for a valid n it calls GetNextAlertPageInRange
\* under context.Background(), else it ends
PrefetchStart ==
    /\ task.state = "spawned"
    /\ IF task.n.Valid
       THEN /\ task' = [task EXCEPT !.state = "calling"]
            /\ cnt' = [cnt EXCEPT !.prefetch = @ + 1]
       ELSE /\ task' = [task EXCEPT !.state = "done", !.after = (hpc = "done")]
            /\ cnt' = cnt
    /\ UNCHANGED <<hpc, req, loc, resp, past, cacheVars, cl>>

\* the goroutine, answering an error of its fetch to the client
PrefetchSurfacesError ==
    /\ task.state = "calling"
    /\ \E r \in Results :
          /\ task' = [task EXCEPT !.state = "done", !.failed = (r.kind # "page"),
                                  !.err = IF r.kind = "page" THEN "" ELSE r.kind,
                                  !.after = (hpc = "done")]
          /\ resp' = IF r.kind # "page" THEN ErrorResponse(r.kind) ELSE resp
    /\ UNCHANGED <<hpc, req, loc, cnt, past, cacheVars, cl>>

\* the goroutine, calling under the handler's ctx: once ctx is cancelled or
\* expired the call returns the context's error
PrefetchUnderRequestContext ==
    /\ task.state = "calling"
    /\ IF loc.ctx \in {"cancelled", "expired"}
       THEN task' = [task EXCEPT !.state = "done", !.failed = TRUE, !.err = "canceled",
                                 !.after = (hpc = "done")]
       ELSE \E r \in Results :
               task' = [task EXCEPT !.state = "done", !.failed = (r.kind # "page"),
                                    !.err = IF r.kind = "page" THEN "" ELSE r.kind,
                                    !.after = (hpc = "done")]
    /\ UNCHANGED <<hpc, req, loc, resp, cnt, past, cacheVars, cl>>

\* lines 251-253, the goroutine: its call returns what upstream answered and its
\* error is logged
Prefetch ==
    /\ task.state = "calling"
    /\ \E r \in Results :
          task' = [task EXCEPT !.state = "done", !.failed = (r.kind # "page"),
                               !.err = IF r.kind = "page" THEN "" ELSE r.kind,
                               !.after = (hpc = "done")]
    /\ UNCHANGED <<hpc, req, loc, resp, cnt, past, cacheVars, cl>>

NextAlert ==
    \/ \E r \in Requests : Request(r)
    \/ Auth
    \/ GetTimes
    \/ ResolveToken
    \/ Fetch
    \/ FetchReturn
    \/ FetchDeadline
    \/ RequestCanceled
    \/ Classify
    \/ Spawn
    \/ Respond
    \/ PrefetchStart
    \/ Prefetch

SpecAlert == InitAlert /\ [][NextAlert]_vars

\* The handler's own steps are taken once they can be, and the deadline of ctx
\* passes if the call is still waiting.  Nothing makes upstream answer, a client
\* send a request or go away.
AlertFairness ==
    /\ WF_vars(Auth)
    /\ WF_vars(GetTimes)
    /\ WF_vars(ResolveToken)
    /\ WF_vars(Fetch)
    /\ WF_vars(FetchDeadline)
    /\ WF_vars(Classify)
    /\ WF_vars(Spawn)
    /\ WF_vars(Respond)
    /\ WF_vars(PrefetchStart)

\* one request, after others that are over
InitAlertLive ==
    /\ size = 0
    /\ c = NewCache(size)
    /\ now = 0
    /\ last = NoCall
    /\ recency = <<>>
    /\ expiredKeys = {}
    /\ RWIdle
    /\ ClientIdle
    /\ hpc = "idle"
    /\ req = NoRequest
    /\ loc = NoLocals
    /\ resp = NoResponse
    /\ task = NoTask
    /\ cnt = NoCounts
    /\ past = [NoPast EXCEPT !.requests = MaxRequests - 1]

SpecAlertLive == InitAlertLive /\ [][NextAlert]_vars /\ AlertFairness

\* SpecFreq: lines 256-283 for every list of alerts a first page can hold
InitFreq ==
    /\ size = 0
    /\ c = NewCache(size)
    /\ now = 0
    /\ last = NoCall
    /\ recency = <<>>
    /\ expiredKeys = {}
    /\ RWIdle
    /\ ClientIdle
    /\ hpc = "respond"
    /\ req = [NoRequest EXCEPT !.hasUser = TRUE, !.canViewAlerts = TRUE,
                               !.timesOK = TRUE, !.filtersOK = TRUE]
    /\ \E alerts \in AlertLists(MaxAlerts) :
          loc = [NoLocals EXCEPT !.ctx = "live", !.fetched = "page",
                                 !.page = [empty |-> FALSE, next |-> NullString,
                                           prev |-> NullString, alerts |-> alerts]]
    /\ resp = NoResponse
    /\ task = [NoTask EXCEPT !.state = "spawned"]
    /\ cnt = [NoCounts EXCEPT !.client = 1]
    /\ past = [NoPast EXCEPT !.requests = 1]

NextFreq == Respond

SpecFreq == InitFreq /\ [][NextFreq]_vars

(***************************************************************************)
(* Claims about the alert list handler, checked under SpecAlert.           *)
(***************************************************************************)
NoUpstream == cnt.client = 0 /\ cnt.prefetch = 0 /\ task = NoTask

\* C5: when getNext fails to open the request's `next` token, the handler ends
\* with the 400 response of the failed decryption, having made no call on
\* s.Client and started no goroutine; a request whose token does not open is
\* never served a page.
C5_BadTokenFails ==
    /\ loc.nextErr =>
          /\ hpc = "done"
          /\ resp = Failure(400, "decrypt")
          /\ NoUpstream
    /\ (req.next # NoToken /\ Unopaque(req.next, "server").err) =>
          /\ resp.status # 200
          /\ NoUpstream

C5_Witness ==
    /\ hpc = "done" /\ loc.nextErr
    /\ req.next.kind = "sealed" /\ req.next.key = "other"
    /\ resp.status = 400

\* C6: a token that opens to a non-empty cleartext not starting with
\* MonitorBaseURL ends the request with the 400 response "Invalid next page
\* uri"; no call on s.Client is made with it and no goroutine is started.
C6_WrongShapeFails ==
    (loc.next # EmptyText /\ ~HasPrefix(loc.next, MonitorBaseURL)) =>
        /\ hpc \in {"fetch", "done"}
        /\ hpc = "done" => resp = Failure(400, "invalid_uri")
        /\ NoUpstream

C6_Witness ==
    /\ hpc = "done"
    /\ req.next.kind = "sealed" /\ loc.next \in URLs(APIBaseURL)
    /\ resp.status = 400

\* C7: when the handler's fetch, of a first or of a next page, returns
\* twilio.NoMoreResults, the request ends with status 200, an empty page, no
\* error and neither a next nor a previous token, and the goroutine makes no
\* call on s.Client.
C7_NoMoreResultsServedEmpty ==
    (loc.fetched = "nomore") =>
        /\ cnt.prefetch = 0
        /\ resp.status \in {0, 200}
        /\ hpc \in {"classify", "spawn", "respond", "done"}
        /\ hpc = "done" =>
              /\ resp.status = 200 /\ resp.msg = ""
              /\ resp.page = EmptyPage /\ resp.page.alerts = <<>>
              /\ resp.nextTok = NoToken /\ resp.prevTok = NoToken

C7_Witness ==
    /\ loc.fetched = "nomore" /\ loc.cursor # EmptyText
    /\ hpc = "done" /\ resp.status = 200
    /\ task.state = "done"

\* C8: once the goroutine is started the response is the page the handler
\* fetched, with status 200, whether the goroutine has not run, has succeeded or
\* has failed; and the goroutine calls s.Client at most once.
C8_ResponseIgnoresPrefetch ==
    /\ cnt.prefetch <= 1
    /\ task.state # "none" =>
          /\ resp.status \in {0, 200}
          /\ hpc = "done" =>
                /\ resp.status = 200 /\ resp.msg = ""
                /\ resp.page = loc.page
                /\ resp.nextTok.body = loc.page.next.String
                /\ resp.prevTok.body = loc.page.prev.String

C8_Witness ==
    /\ hpc = "done" /\ resp.status = 200
    /\ task.state = "done" /\ task.failed /\ cnt.prefetch = 1

\* C9: a user who may not view alerts is answered 403 before any token is
\* opened, any call on s.Client is made or any goroutine is started, and is
\* never answered a page; a user who may, whose request is well formed, gets to
\* the fetch.
WellFormed ==
    /\ req.timesOK
    /\ ~getNext(req, "server").err
    /\ LET next == getNext(req, "server").str
       IN  IF next = EmptyText THEN req.filtersOK ELSE HasPrefix(next, MonitorBaseURL)

C9_ForbiddenUserDenied ==
    /\ (req.hasUser /\ ~req.canViewAlerts) =>
          /\ hpc \in {"auth", "done"}
          /\ hpc = "done" => resp = Failure(403, "denied")
          /\ cnt = NoCounts /\ task = NoTask
    /\ (req.hasUser /\ req.canViewAlerts /\ hpc = "done") =>
          /\ resp.status # 403
          /\ WellFormed => cnt.client = 1

C9_Witness ==
    /\ hpc = "done" /\ resp.status = 403
    /\ req.next.kind = "sealed" /\ req.next.key = "server"
    /\ req.next.body \in URLs(MonitorBaseURL)

(***************************************************************************)
(* Claims about the frequencies of a first page, checked under SpecFreq.   *)
(***************************************************************************)
\* the windows by the names the buckets carry
NamedWindows ==
    <<[Name |-> "5 minutes", Since |-> FiveMinutes],
      [Name |-> "hour", Since |-> Hour],
      [Name |-> "day", Since |-> Day],
      [Name |-> "3 days", Since |-> 3 * Day]>>

\* the alerts of a list with a valid creation time less than `since` before now
Inside(alerts, since) ==
    {i \in 1..Len(alerts) : alerts[i].created = "valid" /\ alerts[i].age < since}

FirstPageServed == hpc = "done" /\ resp.status = 200 /\ loc.next = EmptyText

\* C11: a served first page carries four buckets, named 5 minutes, hour, day and
\* 3 days in this order, and the count of each is the number of alerts of the
\* page with a valid creation time less than the named window before now.
C11_BucketsCountNamedWindows ==
    FirstPageServed =>
        /\ Len(resp.freq) = Len(NamedWindows)
        /\ \A i \in 1..Len(NamedWindows) :
              /\ resp.freq[i].Name = NamedWindows[i].Name
              /\ resp.freq[i].Count =
                    Cardinality(Inside(resp.page.alerts, NamedWindows[i].Since))

\* C12 as stated: a bucket is saturated exactly when its count equals the number
\* of alerts examined, the empty list included.
C12_SaturatedIffCountIsTotal ==
    FirstPageServed =>
        \A i \in 1..Len(resp.freq) :
            resp.freq[i].HaveMore <=> (resp.freq[i].Count = Len(resp.page.alerts))

\* C12: a bucket is saturated exactly when the page holds at least one alert and
\* every alert of the page has a valid creation time inside the window the
\* bucket was computed with; its count is then the number of alerts examined.
C12_SaturatedIffAllInsideNonEmpty ==
    FirstPageServed =>
        \A i \in 1..Len(resp.freq) :
            LET alerts == resp.page.alerts
                inside == Inside(alerts, resp.freq[i].Since)
            IN  /\ resp.freq[i].Count = Cardinality(inside)
                /\ resp.freq[i].HaveMore <=>
                      (Len(alerts) > 0 /\ inside = 1..Len(alerts))
                /\ resp.freq[i].HaveMore <=>
                      (resp.freq[i].Count > 0 /\ resp.freq[i].Count = Len(alerts))

\* a full page whose alerts all lie inside the hour, and some but not all inside
\* five minutes, is served
C12_Witness ==
    /\ FirstPageServed
    /\ Len(resp.page.alerts) = MaxAlerts
    /\ resp.freq[2].HaveMore /\ ~resp.freq[1].HaveMore
    /\ resp.freq[1].Count > 0

(***************************************************************************)
(* Claims about tokens, contexts and errors of the alert list handler,     *)
(* checked under SpecAlert; termination is checked under SpecAlertLive.    *)
(***************************************************************************)
\* the request presents, unchanged, a token that a served page carried
Presented == req.next # NoToken /\ req.next = past.tok

\* the request gets past the user, capability and time range tests
Admitted == req.hasUser /\ req.canViewAlerts /\ req.timesOK

\* C14: a token that a served page carried, presented as the `next` parameter,
\* opens under s.secretKey to the cursor it was sealed from, which starts with
\* MonitorBaseURL, and for an admitted request the handler's fetch is the
\* next-page fetch for that cursor, the first time the token is presented and
\* every time after.
C14_ServedTokenOpensToCursor ==
    Presented =>
        /\ HasPrefix(past.cursor, MonitorBaseURL)
        /\ hpc \notin {"auth", "times", "token"} /\ Admitted =>
              /\ ~loc.nextErr
              /\ loc.next = past.cursor
              /\ resp.msg \notin {"decrypt", "invalid_uri", "filter"}
              /\ hpc # "fetch" =>
                    /\ loc.cursor = past.cursor
                    /\ cnt.client = 1

\* the same token has been presented by two requests and a page served to each
C14_Witness ==
    /\ Presented /\ past.uses = 2
    /\ hpc = "done" /\ resp.status = 200
    /\ loc.cursor = past.cursor /\ loc.fetched = "page"

\* C15 as stated: a request that has arrived is answered, and the goroutine it
\* started ends, even if upstream never answers.
C15_EveryCallTerminates ==
    /\ (hpc \notin {"idle", "done"}) ~> (hpc = "done")
    /\ (task.state \in {"spawned", "calling"}) ~> (task.state = "done")

\* C15: a request that has arrived is answered even if upstream never answers:
\* the handler's fetch ends at the latest with the deadline of ctx.
C15_MainFetchTerminates ==
    /\ (hpc \notin {"idle", "done"}) ~> (hpc = "done")
    /\ (hpc = "await") ~> (hpc = "classify" \/ hpc = "done")

\* the fetch ended by the deadline of ctx and was answered as a server error
C15_Witness ==
    /\ hpc = "done" /\ loc.fetched = "deadline" /\ loc.ctx = "expired"
    /\ resp.status = 500 /\ task = NoTask

\* C16: the goroutine's call never returns the error of a cancelled or expired
\* context, and no step that cancels or expires ctx, the deferred cancel of the
\* returning handler included, changes the goroutine's state.
C16_PrefetchKeepsRunning ==
    /\ [](task.err \notin {"canceled", "deadline"})
    /\ [][(loc'.ctx \in {"cancelled", "expired"} /\ loc'.ctx # loc.ctx) => task' = task]_vars

\* the goroutine's call returned a page after the handler had returned and ctx
\* was cancelled
C16_Witness ==
    /\ task.state = "done" /\ task.after /\ cnt.prefetch = 1
    /\ ~task.failed /\ task.err = ""
    /\ hpc = "done" /\ loc.ctx = "cancelled"

\* C17: a served page carries a forward token exactly when the fetched page has
\* a forward cursor and a backward token exactly when it has a backward cursor;
\* each token is sealed under s.secretKey and opens to that cursor, and the
\* `next` parameter of each link is that token, never the cursor.
C17_TokensMatchCursors ==
    (hpc = "done" /\ resp.status = 200) =>
        /\ resp.page = loc.page
        /\ (resp.nextTok # NoToken) <=> resp.page.next.Valid
        /\ (resp.prevTok # NoToken) <=> resp.page.prev.Valid
        /\ resp.page.next.Valid =>
              /\ NextQuery(resp).next.kind = "sealed"
              /\ Unopaque(NextQuery(resp).next, "server")
                    = [str |-> resp.page.next.String, err |-> FALSE]
        /\ resp.page.prev.Valid =>
              /\ PreviousQuery(resp).next.kind = "sealed"
              /\ Unopaque(PreviousQuery(resp).next, "server")
                    = [str |-> resp.page.prev.String, err |-> FALSE]

\* a page with different forward and backward cursors is served with both tokens
C17_Witness ==
    /\ hpc = "done" /\ resp.status = 200
    /\ resp.page.next.Valid /\ resp.page.prev.Valid
    /\ resp.page.next # resp.page.prev
    /\ resp.nextTok.body = resp.page.next.String
    /\ resp.prevTok.body = resp.page.prev.String

\* the errors of the handler's fetch other than twilio.NoMoreResults
FetchErrors == {"rest400", "rest404", "rest500", "other", "deadline", "canceled"}

\* C18: when the handler's fetch fails with another error than NoMoreResults the
\* request is answered 400 for a *rest.Error with status 400, 404 for one with
\* status 404 and 500 for every other error, with no page and no token, and no
\* goroutine is started.
C18_UpstreamErrorClassified ==
    (loc.fetched \in FetchErrors) =>
        /\ hpc \in {"classify", "done"}
        /\ task = NoTask /\ cnt.prefetch = 0
        /\ hpc = "done" =>
              /\ resp.status = CASE loc.fetched = "rest400" -> 400
                                 [] loc.fetched = "rest404" -> 404
                                 [] OTHER -> 500
              /\ resp.page = EmptyPage
              /\ resp.nextTok = NoToken /\ resp.prevTok = NoToken
              /\ resp.freq = <<>>

\* a next-page fetch answered 404 by upstream is answered not-found
C18_Witness ==
    /\ hpc = "done" /\ loc.fetched = "rest404" /\ resp.status = 404
    /\ loc.cursor # EmptyText /\ task = NoTask

(***************************************************************************)
(* SpecClient: views.Client.  Each fetch operation is one action: the call *)
(* on the twilio client and what it returns, then the view built from it.  *)
(***************************************************************************)
\* config.User: the capabilities of the user, by kind of resource
Kinds == {"messages", "calls", "media", "recordings"}
Users == [Kinds -> BOOLEAN]

\* what a call on the twilio client returns: the resource, or an error of the
\* API (a *rest.Error) or of the transport
UpstreamErrors == {"rest400", "rest404", "rest500", "transport"}
Upstream(data) ==
    {[err |-> "", data |-> d] : d \in data} \cup
    {[err |-> e, data |-> <<>>] : e \in UpstreamErrors}

\* the resources of the API: a record or page by its kind, the media URLs of a message
Resources(kind) == {<<kind>>}
MediaURLs == UNION {[1..n -> URLs(APIBaseURL)] : n \in 0..MaxURLs}

\* NewMessage, NewCall, NewMessagePage, NewCallPage, NewRecordingPage: the view of
\* a resource for a user, or config.PermissionDenied for a user who may not view
\* resources of its kind
NewView(kind, user, data) ==
    IF ~user[kind]
    THEN [err |-> "PermissionDenied", result |-> <<>>]
    ELSE [err |-> "", result |-> <<"view", data>>]

Returned(op, user, upstream, err, result) ==
    [op |-> op, state |-> "returned", user |-> user, upstream |-> upstream,
     err |-> err, result |-> IF err = "" THEN result ELSE <<>>, got |-> NoAnswer]

InitClient ==
    /\ size = 0
    /\ c = NewCache(size)
    /\ now = 0
    /\ last = NoCall
    /\ recency = <<>>
    /\ expiredKeys = {}
    /\ RWIdle
    /\ AlertIdle
    /\ ClientIdle

ClientOps ==
    {"GetMessage", "GetCall", "GetMediaURLs", "GetMessagePage", "GetNextMessagePage",
     "GetCallPage", "GetNextCallPage", "GetNextRecordingPage", "GetCallRecordings"}

\* a caller calls an operation for a user
ClientCall(op, user) ==
    /\ cl.state # "called"
    /\ cl' = [NoClientCall EXCEPT !.op = op, !.state = "called", !.user = user]
    /\ UNCHANGED <<cacheVars, alertVars>>

\* the operation calling the twilio client a second time when the first call fails
FetchRetries(kind) ==
    /\ \E up \in Upstream(Resources(kind)), again \in Upstream(Resources(kind)) :
          cl' = IF up.err # ""
                THEN IF again.err # ""
                     THEN [Returned(cl.op, cl.user, 2, again.err, <<>>) EXCEPT !.got = up]
                     ELSE LET v == NewView(kind, cl.user, again.data)
                          IN  [Returned(cl.op, cl.user, 2, v.err, v.result) EXCEPT !.got = up]
                ELSE LET v == NewView(kind, cl.user, up.data)
                     IN  [Returned(cl.op, cl.user, 1, v.err, v.result) EXCEPT !.got = up]
    /\ UNCHANGED <<cacheVars, alertVars>>

\* the shape of every operation but GetMediaURLs: one call on the twilio client,
\* its error returned as it is, else the view of what it returned
FetchThenView(kind) ==
    /\ \E up \in Upstream(Resources(kind)) :
          cl' = IF up.err # ""
                THEN [Returned(cl.op, cl.user, 1, up.err, <<>>) EXCEPT !.got = up]
                ELSE LET v == NewView(kind, cl.user, up.data)
                     IN  [Returned(cl.op, cl.user, 1, v.err, v.result) EXCEPT !.got = up]
    /\ UNCHANGED <<cacheVars, alertVars>>

Called(op) == cl.state = "called" /\ cl.op = op

\* lines 364-372
GetMessage ==
    /\ Called("GetMessage")
    /\ FetchThenView("messages")

\* lines 374-382
GetCall ==
    /\ Called("GetCall")
    /\ FetchThenView("calls")

\* lines 399-408 with the URLs handed on as they are
OpaqueImagesUnsealed(urls, nonces, badAt) ==
    IF badAt \in 1..Len(urls)
    THEN [err |-> "parse", result |-> <<>>]
    ELSE [err |-> "",
          result |-> [i \in 1..Len(urls) |->
                         [path |-> "/images/", token |-> Raw(Valid(urls[i]))]]]

\* lines 399-408: each URL is sealed and parsed as /images/<token>; the first
\* failure of url.Parse, at index badAt, ends the call with that error
OpaqueImages(urls, nonces, badAt) ==
    IF badAt \in 1..Len(urls)
    THEN [err |-> "parse", result |-> <<>>]
    ELSE [err |-> "",
          result |-> [i \in 1..Len(urls) |->
                         [path |-> "/images/", token |-> Opaque(urls[i], "server", nonces[i])]]]

\* lines 389-409
GetMediaURLs ==
    /\ Called("GetMediaURLs")
    /\ IF ~cl.user["media"]
       THEN cl' = Returned(cl.op, cl.user, 0, "PermissionDenied", <<>>)
       ELSE \E up \in Upstream(MediaURLs) :
               IF up.err # ""
               THEN cl' = [Returned(cl.op, cl.user, 1, up.err, <<>>) EXCEPT !.got = up]
               ELSE \E nonces \in [1..Len(up.data) -> Nonces], badAt \in 0..Len(up.data) :
                       LET o == OpaqueImages(up.data, nonces, badAt)
                       IN  cl' = [Returned(cl.op, cl.user, 1, o.err, o.result)
                                     EXCEPT !.got = up]
    /\ UNCHANGED <<cacheVars, alertVars>>

\* lines 411-417
GetMessagePage ==
    /\ Called("GetMessagePage")
    /\ FetchThenView("messages")

\* lines 419-426
GetNextMessagePage ==
    /\ Called("GetNextMessagePage")
    /\ FetchThenView("messages")

\* lines 428-434
GetCallPage ==
    /\ Called("GetCallPage")
    /\ FetchThenView("calls")

\* lines 436-443
GetNextCallPage ==
    /\ Called("GetNextCallPage")
    /\ FetchThenView("calls")

\* lines 445-452
GetNextRecordingPage ==
    /\ Called("GetNextRecordingPage")
    /\ FetchThenView("recordings")

\* lines 454-460
GetCallRecordings ==
    /\ Called("GetCallRecordings")
    /\ FetchThenView("recordings")

NextClient ==
    \/ \E op \in ClientOps, user \in Users : ClientCall(op, user)
    \/ GetMessage
    \/ GetCall
    \/ GetMediaURLs
    \/ GetMessagePage
    \/ GetNextMessagePage
    \/ GetCallPage
    \/ GetNextCallPage
    \/ GetNextRecordingPage
    \/ GetCallRecordings

SpecClient == InitClient /\ [][NextClient]_vars

\* C10: a fetch operation of the Client that returns PermissionDenied has made
\* no call on the twilio client.
C10_DeniedWithoutUpstream ==
    (cl.state = "returned" /\ cl.err = "PermissionDenied") => cl.upstream = 0

\* C13: for a user who may view media, GetMediaURLs that succeeds returns one
\* URL for each URL the twilio client returned, in the same order, each
\* /images/ followed by a token sealed under the Client's key that opens to that
\* URL and is not the URL itself; when the call on the twilio client or a
\* url.Parse fails it returns no list and the error.
C13_MediaURLsSealedInOrder ==
    (cl.state = "returned" /\ cl.op = "GetMediaURLs" /\ cl.user["media"]) =>
        /\ cl.upstream = 1
        /\ IF cl.err = ""
           THEN /\ cl.got.err = ""
                /\ Len(cl.result) = Len(cl.got.data)
                /\ \A i \in 1..Len(cl.result) :
                      /\ cl.result[i].path = "/images/"
                      /\ cl.result[i].token.kind = "sealed"
                      /\ Unopaque(cl.result[i].token, "server")
                            = [str |-> cl.got.data[i], err |-> FALSE]
                      /\ Unopaque(cl.result[i].token, "other").err
           ELSE /\ cl.result = <<>>
                /\ cl.got.err # "" => cl.err = cl.got.err

\* two different media URLs are returned sealed, in the order upstream gave them
C13_Witness ==
    /\ cl.state = "returned" /\ cl.op = "GetMediaURLs" /\ cl.err = ""
    /\ Len(cl.result) = MaxURLs
    /\ cl.got.data[1] # cl.got.data[MaxURLs]
    /\ cl.result[1].token.body = cl.got.data[1]

\* C19: every operation calls the twilio client at most once, and when that call
\* fails it returns no result and the error of that call, whatever the user may
\* view.
C19_UpstreamErrorPassedThrough ==
    cl.state = "returned" =>
        /\ cl.upstream <= 1
        /\ cl.got.err # "" =>
              /\ cl.upstream = 1
              /\ cl.err = cl.got.err
              /\ cl.result = <<>>

\* GetCall for a user who may not view calls returns the transport's error
C19_Witness ==
    /\ cl.state = "returned" /\ cl.op = "GetCall" /\ ~cl.user["calls"]
    /\ cl.got.err = "transport" /\ cl.err = "transport" /\ cl.upstream = 1

====
